---------------------------- MODULE Spec2Model ----------------------------
(***************************************************************************)
(* TCP segment codec of tcp-builder: Encode / Decode of src/tcp/tcp.js,    *)
(* the option builders (option-bulder.js) and the checksum routine         *)
(* (tcp-checksum.js).                                                      *)
(*                                                                         *)
(* A Buffer is a sequence of bytes (0..255); the JavaScript offset k is    *)
(* the index k + 1.  A 32-bit unsigned number n is the pair <<hi, lo>>     *)
(* with n = hi * 65536 + lo and lo in 0..65535, so that 4294967295 is      *)
(* <<65535, 65535>>; a pair with hi > 65535 is a number above 2^32 - 1.    *)
(* A string is the sequence of its characters.                             *)
(***************************************************************************)
EXTENDS Integers, Sequences, FiniteSets, TLC

-----------------------------------------------------------------------------
(* Bounds of the model *)

\* longest sequence of builder options handed to Encode
MaxOptions == 3
\* longest raw options buffer handed to Encode and to optPadding
MaxRawOptions == 44
\* longest payload handed to Encode
MaxPayloadLen == 3
\* longest of the three buffers handed to the checksum routines
MaxPartLen == 2
\* longest buffer handed to the byte accessors
MaxAccessLen == 3

-----------------------------------------------------------------------------
(* Numbers and bit operations of JavaScript on non-negative integers *)

RECURSIVE Pow2(_)
Pow2(n) == IF n = 0 THEN 1 ELSE 2 * Pow2(n - 1)

\* a & b
RECURSIVE BitAnd(_, _)
BitAnd(a, b) ==
    IF a = 0 \/ b = 0 THEN 0
    ELSE (a % 2) * (b % 2) + 2 * BitAnd(a \div 2, b \div 2)

\* a | b
RECURSIVE BitOr(_, _)
BitOr(a, b) ==
    IF a = 0 THEN b
    ELSE IF b = 0 THEN a
    ELSE (IF a % 2 = 1 \/ b % 2 = 1 THEN 1 ELSE 0) + 2 * BitOr(a \div 2, b \div 2)

\* a << n (no model value reaches 2^31)
ShiftLeft(a, n) == a * Pow2(n)

\* a >> n and a >>> n on a non-negative a
ShiftRight(a, n) == a \div Pow2(n)

Byte == 0 .. 255

U32(hi, lo) == <<hi, lo>>

-----------------------------------------------------------------------------
(* Node Buffer operations used by the codec *)

\* Buffer.alloc(n) and Buffer.alloc(n, fill)
BufferAllocFill(n, fill) == [i \in 1 .. n |-> fill]

BufferAlloc(n) == BufferAllocFill(n, 0)

\* buf.slice(start, end): both ends are clamped to the buffer
BufferSlice(b, start, end) ==
    LET s == IF start > Len(b) THEN Len(b) ELSE start
        e == IF end > Len(b) THEN Len(b) ELSE end
    IN  IF e <= s THEN << >> ELSE SubSeq(b, s + 1, e)

\* source.copy(target, targetStart)
BufferCopy(source, target, targetStart) ==
    [i \in 1 .. Len(target) |->
        IF i > targetStart /\ i <= targetStart + Len(source)
        THEN source[i - targetStart]
        ELSE target[i]]

\* the range check of writeUInt8 / writeUInt16BE / writeUInt32BE: a value
\* outside the field's unsigned range makes the write throw a RangeError
InRangeU8(v) == v >= 0 /\ v <= 255

InRangeU16(v) == v >= 0 /\ v <= 65535

InRangeU32(v) == v[1] >= 0 /\ v[1] <= 65535 /\ v[2] >= 0 /\ v[2] <= 65535

WriteUInt8(b, v, offset) == [b EXCEPT ![offset + 1] = v]

WriteUInt16LE(b, v, offset) ==
    [b EXCEPT ![offset + 1] = v % 256, ![offset + 2] = v \div 256]

\* buf.writeUInt16BE(v, offset), v in range
WriteUInt16BE(b, v, offset) ==
    [b EXCEPT ![offset + 1] = v \div 256, ![offset + 2] = v % 256]

\* buf.writeUInt32BE(v, offset), v in range
WriteUInt32BE(b, v, offset) ==
    WriteUInt16BE(WriteUInt16BE(b, v[1], offset), v[2], offset + 2)

ReadUInt8(b, offset) == b[offset + 1]

ReadUInt16LE(b, offset) == b[offset + 2] * 256 + b[offset + 1]

\* buf.readUInt16BE(offset)
ReadUInt16BE(b, offset) == b[offset + 1] * 256 + b[offset + 2]

\* buf.readUInt32BE(offset)
ReadUInt32BE(b, offset) ==
    U32(ReadUInt16BE(b, offset), ReadUInt16BE(b, offset + 2))

\* Buffer.from(array of numbers): every element is stored modulo 256
BufferFromArray(a) == [i \in 1 .. Len(a) |-> a[i] % 256]

-----------------------------------------------------------------------------
(* Strings: String.prototype.split and parseInt(s, 10) *)

DigitChars == <<"0", "1", "2", "3", "4", "5", "6", "7", "8", "9">>

IsDigit(c) == \E d \in 1 .. 10 : DigitChars[d] = c

DigitValue(c) == (CHOOSE d \in 1 .. 10 : DigitChars[d] = c) - 1

\* s.split(sep): the parts between the separators, an empty string giving
\* one empty part
RECURSIVE SplitLoop(_, _, _, _)
SplitLoop(s, sep, cur, acc) ==
    IF s = << >> THEN Append(acc, cur)
    ELSE IF Head(s) = sep THEN SplitLoop(Tail(s), sep, << >>, Append(acc, cur))
    ELSE SplitLoop(Tail(s), sep, Append(cur, Head(s)), acc)

Split(s, sep) == SplitLoop(s, sep, << >>, << >>)

NaN == [nan |-> TRUE, n |-> 0]

Num(n) == [nan |-> FALSE, n |-> n]

RECURSIVE SkipSpaces(_)
SkipSpaces(s) ==
    IF s # << >> /\ Head(s) = " " THEN SkipSpaces(Tail(s)) ELSE s

\* the value of the longest prefix of digits of s, after acc
RECURSIVE DigitPrefix(_, _)
DigitPrefix(s, acc) ==
    IF s # << >> /\ IsDigit(Head(s))
    THEN DigitPrefix(Tail(s), acc * 10 + DigitValue(Head(s)))
    ELSE acc

\* parseInt(s, 10): leading blanks, an optional sign, then the longest
\* prefix of digits; NaN when that prefix is empty
parseInt(s) ==
    LET t == SkipSpaces(s)
        signed == t # << >> /\ Head(t) \in {"+", "-"}
        u == IF signed THEN Tail(t) ELSE t
    IN  IF u = << >> \/ ~IsDigit(Head(u)) THEN NaN
        ELSE IF signed /\ Head(t) = "-" THEN Num(0 - DigitPrefix(u, 0))
        ELSE Num(DigitPrefix(u, 0))

MapParseInt(parts) == [i \in 1 .. Len(parts) |-> parseInt(parts[i])]

-----------------------------------------------------------------------------
(* option-bulder.js: the option builders *)

optEOL == <<0>>

optNOP == <<1>>

\* optMSS(mss), mss in 0..65535
optMSS(mss) ==
    LET b0 == BufferAlloc(4)
        b1 == [b0 EXCEPT ![1] = 2, ![2] = 4]
    IN  WriteUInt16BE(b1, mss, 2)

\* optWScale(shift)
optWScale(shift) ==
    LET s0 == BufferAlloc(3)
    IN  [s0 EXCEPT ![1] = 3, ![2] = 3, ![3] = BitAnd(shift, 255)]

\* optSACK(): SACK permitted
optSACK == <<4, 2>>

\* optTimestamp(tsval, tsecr)
optTimestamp(tsval, tsecr) ==
    LET b0 == BufferAlloc(10)
        b1 == [b0 EXCEPT ![1] = 8, ![2] = 10]
        b2 == WriteUInt32BE(b1, tsval, 2)
    IN  WriteUInt32BE(b2, tsecr, 6)

optPaddingZeros(buf) ==
    LET rem == Len(buf) % 4
    IN  IF rem = 0 THEN buf
        ELSE buf \o BufferAllocFill(4 - rem, 0)

optPaddingShort(buf) ==
    LET rem == Len(buf) % 4
    IN  IF rem = 0 THEN buf
        ELSE buf \o BufferAllocFill(rem, 1)

\* optPadding(buf)
optPadding(buf) ==
    LET rem == Len(buf) % 4
    IN  IF rem = 0 THEN buf
        ELSE LET padLength == 4 - rem
             IN  buf \o BufferAllocFill(padLength, 1)

-----------------------------------------------------------------------------
(* tcp-checksum.js *)

\* ipToBuffer(ip)
ipToBuffer(ip) ==
    LET parts == MapParseInt(Split(ip, "."))
    IN  BufferFromArray([i \in 1 .. Len(parts) |->
                            IF parts[i].nan THEN 0 ELSE parts[i].n])

\* while (sum > 0xFFFF) sum = (sum & 0xFFFF) + (sum >>> 16)
RECURSIVE foldCarries(_)
foldCarries(sum) ==
    IF sum > 65535
    THEN foldCarries(BitAnd(sum, 65535) + ShiftRight(sum, 16))
    ELSE sum

\* the loop without the word of a trailing odd byte
RECURSIVE onesComplementSumLoopDropsOddByte(_, _, _)
onesComplementSumLoopDropsOddByte(buf, i, sum) ==
    IF ~(i + 1 < Len(buf)) THEN sum
    ELSE LET word == ShiftLeft(buf[i + 1], 8) + buf[i + 2]
         IN  onesComplementSumLoopDropsOddByte(buf, i + 2, foldCarries(sum + word))

\* the loop of onesComplementSum, from offset i with the running sum
RECURSIVE onesComplementSumLoop(_, _, _)
onesComplementSumLoop(buf, i, sum) ==
    IF ~(i < Len(buf)) THEN sum
    ELSE LET word == IF i + 1 < Len(buf)
                     THEN ShiftLeft(buf[i + 1], 8) + buf[i + 2]
                     ELSE ShiftLeft(buf[i + 1], 8)
         IN  onesComplementSumLoop(buf, i + 2, foldCarries(sum + word))

\* onesComplementSum(buf)
onesComplementSum(buf) == onesComplementSumLoop(buf, 0, 0)

\* the pseudo-header tcpCheckSum builds
pseudoHeaderOf(srcIp, destIp, tcpBuffer) ==
    LET p0 == BufferAlloc(12)
        p1 == BufferCopy(ipToBuffer(srcIp), p0, 0)
        p2 == BufferCopy(ipToBuffer(destIp), p1, 4)
        p3 == WriteUInt8(p2, 0, 8)
        p4 == WriteUInt8(p3, 6, 9)
    IN  WriteUInt16BE(p4, Len(tcpBuffer), 10)

\* the length write refusing a segment of exactly 65535 bytes
tcpCheckSumThrowsAtLimit(tcpBuffer) == Len(tcpBuffer) < 0 \/ Len(tcpBuffer) >= 65535

\* tcpCheckSum throws when the segment length does not fit the 16-bit field
tcpCheckSumThrows(tcpBuffer) == ~InRangeU16(Len(tcpBuffer))

\* the checksum with a zero result sent as 0xFFFF, as UDP does
tcpCheckSumZeroAsOnes(srcIp, destIp, tcpBuffer) ==
    LET checksumData == pseudoHeaderOf(srcIp, destIp, tcpBuffer) \o tcpBuffer
        sum == onesComplementSum(checksumData)
    IN  IF sum = 65535 THEN 65535 ELSE BitAnd(65535 - sum, 65535)

tcpCheckSumNoComplement(srcIp, destIp, tcpBuffer) ==
    onesComplementSum(pseudoHeaderOf(srcIp, destIp, tcpBuffer) \o tcpBuffer)

\* tcpCheckSum(srcIp, destIp, tcpBuffer)
tcpCheckSum(srcIp, destIp, tcpBuffer) ==
    LET checksumData == pseudoHeaderOf(srcIp, destIp, tcpBuffer) \o tcpBuffer
        sum == onesComplementSum(checksumData)
    IN  BitAnd(65535 - sum, 65535)

-----------------------------------------------------------------------------
(* src/ipv4/utils.js and src/udp/util.js: the checksum routines *)

\* the loop of onesComplementSum of ipv4/utils.js
RECURSIVE ipv4OnesComplementSumLoop(_, _, _)
ipv4OnesComplementSumLoop(pkt, i, sum) ==
    IF ~(i < Len(pkt)) THEN sum
    ELSE LET word == IF i + 1 < Len(pkt)
                     THEN BitOr(ShiftLeft(pkt[i + 1], 8), pkt[i + 2])
                     ELSE ShiftLeft(pkt[i + 1], 8)
         IN  ipv4OnesComplementSumLoop(pkt, i + 2, foldCarries(sum + word))

\* onesComplementSum(packet) of ipv4/utils.js: return ~sum & 0xFFFF
ipv4OnesComplementSum(pkt) ==
    BitAnd(65535 - ipv4OnesComplementSumLoop(pkt, 0, 0), 65535)

\* the loop with a last odd byte taken as the low byte of its word
RECURSIVE calculateChecksumLoopOddByteLow(_, _, _)
calculateChecksumLoopOddByteLow(total, i, sum) ==
    IF ~(i < Len(total)) THEN sum
    ELSE LET word == IF i + 1 < Len(total)
                     THEN ShiftLeft(total[i + 1], 8) + total[i + 2]
                     ELSE total[i + 1]
         IN  calculateChecksumLoopOddByteLow(total, i + 2, foldCarries(sum + word))

\* the loop of calculateChecksum: (total[i] << 8) + (total[i + 1] || 0)
RECURSIVE calculateChecksumLoop(_, _, _)
calculateChecksumLoop(total, i, sum) ==
    IF ~(i < Len(total)) THEN sum
    ELSE LET low == IF i + 1 < Len(total) THEN total[i + 2] ELSE 0
             word == ShiftLeft(total[i + 1], 8) + low
         IN  calculateChecksumLoop(total, i + 2, foldCarries(sum + word))

\* calculateChecksum(pseudoHeader, udpHeader, data) of udp/util.js
calculateChecksum(pseudoHeader, udpHeader, data) ==
    LET total == pseudoHeader \o udpHeader \o data
    IN  BitAnd(65535 - calculateChecksumLoop(total, 0, 0), 65535)

-----------------------------------------------------------------------------
(* src/util.js: the checked byte accessors *)

\* a JavaScript number: the integer int, or int + 1/2 when half is TRUE
Whole(n) == [int |-> n, half |-> FALSE]

WholeAndHalf(n) == [int |-> n, half |-> TRUE]

\* value < 0
NumBelowZero(value) == value.int < 0

\* value > max, max an integer
NumAbove(value, max) == value.int > max \/ (value.int = max /\ value.half)

\* Number.isInteger(value)
NumberIsInteger(value) == ~value.half

\* an argument that is a Buffer holding the bytes b
BufferOf(b) == [isBuffer |-> TRUE, bytes |-> b]

\* an argument that is not a Buffer
NotABuffer == [isBuffer |-> FALSE, bytes |-> << >>]

\* what an accessor returns, and the bytes of its buffer afterwards
Accessed(returned, bytes) == [returned |-> returned, bytes |-> bytes]

\* checkAndRead16(buffer, from)
checkAndRead16(buffer, from) ==
    IF ~buffer.isBuffer THEN Accessed(0, buffer.bytes)
    ELSE IF Len(buffer.bytes) < from + 2 THEN Accessed(0, buffer.bytes)
    ELSE Accessed(ReadUInt16BE(buffer.bytes, from), buffer.bytes)

\* checkAndRead8(buffer, from)
checkAndRead8(buffer, from) ==
    IF ~buffer.isBuffer THEN Accessed(0, buffer.bytes)
    ELSE IF Len(buffer.bytes) < from + 1 THEN Accessed(0, buffer.bytes)
    ELSE Accessed(ReadUInt8(buffer.bytes, from), buffer.bytes)

\* checkAndWrite16 without the Number.isInteger test: writeUInt16BE stores
\* the integer part
checkAndWrite16AnyNumber(buffer, value, from) ==
    IF ~buffer.isBuffer THEN Accessed(0, buffer.bytes)
    ELSE IF Len(buffer.bytes) < from + 2 THEN Accessed(0, buffer.bytes)
    ELSE IF NumBelowZero(value) \/ NumAbove(value, 65535)
         THEN Accessed(0, buffer.bytes)
    ELSE Accessed(2, WriteUInt16BE(buffer.bytes, value.int, from))

\* checkAndWrite16(buffer, value, from)
checkAndWrite16(buffer, value, from) ==
    IF ~buffer.isBuffer THEN Accessed(0, buffer.bytes)
    ELSE IF Len(buffer.bytes) < from + 2 THEN Accessed(0, buffer.bytes)
    ELSE IF NumBelowZero(value) \/ NumAbove(value, 65535) \/ ~NumberIsInteger(value)
         THEN Accessed(0, buffer.bytes)
    ELSE Accessed(2, WriteUInt16BE(buffer.bytes, value.int, from))

\* checkAndWrite8(buffer, value, from)
checkAndWrite8(buffer, value, from) ==
    IF ~buffer.isBuffer THEN Accessed(0, buffer.bytes)
    ELSE IF Len(buffer.bytes) < from + 1 THEN Accessed(0, buffer.bytes)
    ELSE IF NumBelowZero(value) \/ NumAbove(value, 255) \/ ~NumberIsInteger(value)
         THEN Accessed(0, buffer.bytes)
    ELSE Accessed(1, WriteUInt8(buffer.bytes, value.int, from))

-----------------------------------------------------------------------------
(* src/tcp/tcp.js: validation helpers *)

\* isValidIP(ipAddress)
isValidIP(ipAddress) ==
    LET octets == MapParseInt(Split(ipAddress, "."))
    IN  IF Len(octets) # 4 THEN FALSE
        ELSE \A i \in 1 .. Len(octets) :
                ~octets[i].nan /\ octets[i].n >= 0 /\ octets[i].n <= 255

\* the range check alone, without the comparison to the packet length
isValidDataOffsetRangeOnly(dataOffset, packetLength) ==
    LET headerLength == dataOffset * 4
    IN  IF headerLength < 20 \/ headerLength > 60 THEN FALSE
        ELSE TRUE

\* isValidDataOffset(dataOffset, packetLength)
isValidDataOffset(dataOffset, packetLength) ==
    LET headerLength == dataOffset * 4
    IN  IF headerLength < 20 \/ headerLength > 60 THEN FALSE
        ELSE IF packetLength < headerLength THEN FALSE
        ELSE TRUE

-----------------------------------------------------------------------------
(* src/tcp/tcp.js: Encode *)

\* what a call leaves its caller with: a returned Buffer or a thrown error
Returned(b) == [threw |-> FALSE, buf |-> b]

Thrown == [threw |-> TRUE, buf |-> << >>]

\* (flags.fin ? 0x01 : 0) | ... | (flags.cwr ? 0x80 : 0); flags is the set
\* of the property names that are truthy
flagBitsOf(flags) ==
    BitOr(IF "fin" \in flags THEN 1 ELSE 0,
    BitOr(IF "syn" \in flags THEN 2 ELSE 0,
    BitOr(IF "rst" \in flags THEN 4 ELSE 0,
    BitOr(IF "psh" \in flags THEN 8 ELSE 0,
    BitOr(IF "ack" \in flags THEN 16 ELSE 0,
    BitOr(IF "urg" \in flags THEN 32 ELSE 0,
    BitOr(IF "ece" \in flags THEN 64 ELSE 0,
          IF "cwr" \in flags THEN 128 ELSE 0)))))))

\* the header with the data offset taken from options.length, not from
\* paddedOptions.length
encodeHeaderUnpaddedOffset(a, paddedOptions) ==
    LET headerSize == 20 + Len(paddedOptions)
        h0 == BufferAlloc(headerSize)
        h1 == WriteUInt16BE(h0, a.srcPort, 0)
        h2 == WriteUInt16BE(h1, a.destPort, 2)
        h3 == WriteUInt32BE(h2, a.seqNumber, 4)
        h4 == WriteUInt32BE(h3, a.ackNumber, 8)
        dataOffset == (20 + Len(a.options)) \div 4
        offsetAndReserved == ShiftLeft(dataOffset, 12)
        flagBits == flagBitsOf(a.flags)
        h5 == WriteUInt16BE(h4, BitOr(offsetAndReserved, flagBits), 12)
        h6 == WriteUInt16BE(h5, a.windowSize, 14)
        h7 == WriteUInt16BE(h6, a.urgentPointer, 18)
    IN  IF Len(paddedOptions) > 0 THEN BufferCopy(paddedOptions, h7, 20) ELSE h7

\* the header of Encode after the writes of its fixed fields
encodeFixedHeader(a, paddedOptions) ==
    LET headerSize == 20 + Len(paddedOptions)
        h0 == BufferAlloc(headerSize)
        h1 == WriteUInt16BE(h0, a.srcPort, 0)
        h2 == WriteUInt16BE(h1, a.destPort, 2)
        h3 == WriteUInt32BE(h2, a.seqNumber, 4)
        h4 == WriteUInt32BE(h3, a.ackNumber, 8)
        dataOffset == headerSize \div 4
        offsetAndReserved == ShiftLeft(dataOffset, 12)
        flagBits == flagBitsOf(a.flags)
        h5 == WriteUInt16BE(h4, BitOr(offsetAndReserved, flagBits), 12)
        h6 == WriteUInt16BE(h5, a.windowSize, 14)
    IN  WriteUInt16BE(h6, a.urgentPointer, 18)

\* the header of Encode before the checksum is written
encodeHeader(a, paddedOptions) ==
    LET h7 == encodeFixedHeader(a, paddedOptions)
    IN  IF Len(paddedOptions) > 0 THEN BufferCopy(paddedOptions, h7, 20) ELSE h7

\* the throwing writes without the range check of the offset and flags word
encodeThrowsControlUnchecked(a, paddedOptions) ==
    LET headerSize == 20 + Len(paddedOptions)
    IN  \/ ~InRangeU16(a.srcPort)
        \/ ~InRangeU16(a.destPort)
        \/ ~InRangeU32(a.seqNumber)
        \/ ~InRangeU32(a.ackNumber)
        \/ ~InRangeU16(a.windowSize)
        \/ ~InRangeU16(a.urgentPointer)
        \/ tcpCheckSumThrows(BufferAlloc(headerSize) \o a.data)

\* the writes of Encode that throw a RangeError
encodeThrows(a, paddedOptions) ==
    LET headerSize == 20 + Len(paddedOptions)
        dataOffset == headerSize \div 4
        control == BitOr(ShiftLeft(dataOffset, 12), flagBitsOf(a.flags))
    IN  \/ ~InRangeU16(a.srcPort)
        \/ ~InRangeU16(a.destPort)
        \/ ~InRangeU32(a.seqNumber)
        \/ ~InRangeU32(a.ackNumber)
        \/ ~InRangeU16(control)
        \/ ~InRangeU16(a.windowSize)
        \/ ~InRangeU16(a.urgentPointer)
        \/ tcpCheckSumThrows(BufferAlloc(headerSize) \o a.data)

\* Encode storing the checksum low byte first
EncodeChecksumLowByteFirst(a) ==
    IF ~isValidIP(a.srcIp) \/ ~isValidIP(a.destIp) THEN Returned(<< >>)
    ELSE LET paddedOptions == optPadding(a.options)
         IN  IF encodeThrows(a, paddedOptions) THEN Thrown
             ELSE LET header == encodeHeader(a, paddedOptions)
                      tcpSegmentTemp == header \o a.data
                      checksum == tcpCheckSum(a.srcIp, a.destIp, tcpSegmentTemp)
                      final == WriteUInt16LE(header, checksum, 16)
                  IN  Returned(final \o a.data)

\* Encode(srcIp, destIp, srcPort, destPort, seqNumber, ackNumber, flags,
\*        windowSize, urgentPointer, options, data)
Encode(a) ==
    IF ~isValidIP(a.srcIp) \/ ~isValidIP(a.destIp) THEN Returned(<< >>)
    ELSE LET paddedOptions == optPadding(a.options)
         IN  IF encodeThrows(a, paddedOptions) THEN Thrown
             ELSE LET header == encodeHeader(a, paddedOptions)
                      tcpSegmentTemp == header \o a.data
                      checksum == tcpCheckSum(a.srcIp, a.destIp, tcpSegmentTemp)
                      final == WriteUInt16BE(header, checksum, 16)
                  IN  Returned(final \o a.data)

\* the writes of the fixed header fields that throw a RangeError
fieldWritesThrow(a, paddedOptions) ==
    LET headerSize == 20 + Len(paddedOptions)
        control == BitOr(ShiftLeft(headerSize \div 4, 12), flagBitsOf(a.flags))
    IN  \/ ~InRangeU16(a.srcPort)
        \/ ~InRangeU16(a.destPort)
        \/ ~InRangeU32(a.seqNumber)
        \/ ~InRangeU32(a.ackNumber)
        \/ ~InRangeU16(control)
        \/ ~InRangeU16(a.windowSize)
        \/ ~InRangeU16(a.urgentPointer)

\* what a call of Encode leaves: the bytes of the caller's options and data
\* Buffers, the Buffers its write statements had as target, and its result
Effects(options, data, written, result) ==
    [options |-> options, data |-> data, written |-> written, result |-> result]

\* Encode with the copy of the options turned round: header.copy(paddedOptions, 20)
EncodeEffectsCopyReversed(a) ==
    IF ~isValidIP(a.srcIp) \/ ~isValidIP(a.destIp)
    THEN Effects(a.options, a.data, {}, Returned(<< >>))
    ELSE LET paddedIs == IF Len(a.options) % 4 = 0 THEN "options" ELSE "paddedOptions"
             heap0 == [options |-> a.options,
                       data |-> a.data,
                       paddedOptions |-> optPadding(a.options),
                       header |-> BufferAlloc(20 + Len(optPadding(a.options)))]
             paddedOptions == heap0[paddedIs]
         IN  IF fieldWritesThrow(a, paddedOptions)
             THEN Effects(heap0.options, heap0.data,
                          IF InRangeU16(a.srcPort) THEN {"header"} ELSE {}, Thrown)
             ELSE LET heap1 == [heap0 EXCEPT !.header = encodeFixedHeader(a, paddedOptions)]
                      heap2 == IF Len(paddedOptions) > 0
                               THEN [heap1 EXCEPT ![paddedIs] = BufferCopy(heap1.header, heap1[paddedIs], 20)]
                               ELSE heap1
                      written == IF Len(paddedOptions) > 0 THEN {"header", paddedIs} ELSE {"header"}
                      tcpSegmentTemp == heap2.header \o heap2.data
                  IN  IF tcpCheckSumThrows(tcpSegmentTemp)
                      THEN Effects(heap2.options, heap2.data, written, Thrown)
                      ELSE LET checksum == tcpCheckSum(a.srcIp, a.destIp, tcpSegmentTemp)
                               heap3 == [heap2 EXCEPT !.header = WriteUInt16BE(heap2.header, checksum, 16)]
                           IN  Effects(heap3.options, heap3.data, written,
                                       Returned(heap3.header \o heap3.data))

\* Encode statement by statement over the Buffers it holds: the caller's
\* options and data, the Buffer optPadding returns (the caller's options
\* itself when its length is a multiple of 4, a new one otherwise) and the
\* header it allocates
EncodeEffects(a) ==
    IF ~isValidIP(a.srcIp) \/ ~isValidIP(a.destIp)
    THEN Effects(a.options, a.data, {}, Returned(<< >>))
    ELSE LET paddedIs == IF Len(a.options) % 4 = 0 THEN "options" ELSE "paddedOptions"
             heap0 == [options |-> a.options,
                       data |-> a.data,
                       paddedOptions |-> optPadding(a.options),
                       header |-> BufferAlloc(20 + Len(optPadding(a.options)))]
             paddedOptions == heap0[paddedIs]
         IN  IF fieldWritesThrow(a, paddedOptions)
             THEN Effects(heap0.options, heap0.data,
                          IF InRangeU16(a.srcPort) THEN {"header"} ELSE {}, Thrown)
             ELSE LET heap1 == [heap0 EXCEPT !.header = encodeFixedHeader(a, paddedOptions)]
                      heap2 == IF Len(paddedOptions) > 0
                               THEN [heap1 EXCEPT !.header = BufferCopy(heap1[paddedIs], heap1.header, 20)]
                               ELSE heap1
                      written == {"header"}
                      tcpSegmentTemp == heap2.header \o heap2.data
                  IN  IF tcpCheckSumThrows(tcpSegmentTemp)
                      THEN Effects(heap2.options, heap2.data, written, Thrown)
                      ELSE LET checksum == tcpCheckSum(a.srcIp, a.destIp, tcpSegmentTemp)
                               heap3 == [heap2 EXCEPT !.header = WriteUInt16BE(heap2.header, checksum, 16)]
                           IN  Effects(heap3.options, heap3.data, written,
                                       Returned(heap3.header \o heap3.data))

-----------------------------------------------------------------------------
(* src/tcp/tcp.js: Decode *)

FLAG_NAMES == <<"CWR", "ECE", "URG", "ACK", "PSH", "RST", "SYN", "FIN">>

\* the 8 binary digits, lowest first
bitsOfLowestFirst(flagBits) ==
    [index \in 1 .. 8 |->
        IF ShiftRight(flagBits, index - 1) % 2 = 1 THEN "1" ELSE "0"]

\* flagBits.toString(2).padStart(8, '0'): the 8 binary digits, highest first
bitsOf(flagBits) ==
    [index \in 1 .. 8 |->
        IF ShiftRight(flagBits, 8 - index) % 2 = 1 THEN "1" ELSE "0"]

\* flags.filter((_, index) => bits[index] === '1')
RECURSIVE filterFlags(_, _, _)
filterFlags(flags, bits, index) ==
    IF index > Len(flags) THEN << >>
    ELSE IF bits[index] = "1"
         THEN <<flags[index]>> \o filterFlags(flags, bits, index + 1)
         ELSE filterFlags(flags, bits, index + 1)

\* parseFlags(flagBits)
parseFlags(flagBits) == filterFlags(FLAG_NAMES, bitsOf(flagBits), 1)

OPTION_TYPES ==
    (0 :> "EOL") @@ (1 :> "NOP") @@ (2 :> "MSS") @@ (3 :> "WS") @@
    (4 :> "SACK-Permitted") @@ (5 :> "SACK") @@ (8 :> "Timestamps") @@
    (14 :> "AltChkSum") @@ (15 :> "AltChkSumData")

MIN_LENGTHS ==
    (2 :> 4) @@ (3 :> 3) @@ (4 :> 2) @@ (5 :> 10) @@ (8 :> 10) @@
    (14 :> 3) @@ (15 :> 2)

MAX_LENGTHS ==
    (2 :> 4) @@ (3 :> 3) @@ (4 :> 2) @@ (5 :> 34) @@ (8 :> 10) @@
    (14 :> 3) @@ (15 :> 40)

\* table[kind] is defined and truthy
Has(table, kind) == kind \in DOMAIN table

\* the length checks without the rule of the SACK option
isInvalidOptionLengthNoSackRule(kind, length, currentIndex, bufferLength, minLengths, maxLengths, optionTypes) ==
    IF length < 2 THEN TRUE
    ELSE IF Has(minLengths, kind) /\ length < minLengths[kind] THEN TRUE
    ELSE IF Has(maxLengths, kind) /\ length > maxLengths[kind] THEN TRUE
    ELSE IF currentIndex + length > bufferLength THEN TRUE
    ELSE IF ~Has(optionTypes, kind) /\ length > 40 THEN TRUE
    ELSE FALSE

\* the length checks without the maximum lengths
isInvalidOptionLengthNoMaximum(kind, length, currentIndex, bufferLength, minLengths, maxLengths, optionTypes) ==
    IF length < 2 THEN TRUE
    ELSE IF Has(minLengths, kind) /\ length < minLengths[kind] THEN TRUE
    ELSE IF currentIndex + length > bufferLength THEN TRUE
    ELSE IF ~Has(optionTypes, kind) /\ length > 40 THEN TRUE
    ELSE IF kind = 5 /\ (length - 2) % 8 # 0 THEN TRUE
    ELSE FALSE

\* the length checks with a length of 2 taken as too short
isInvalidOptionLengthTwoTooShort(kind, length, currentIndex, bufferLength, minLengths, maxLengths, optionTypes) ==
    IF length <= 2 THEN TRUE
    ELSE IF Has(minLengths, kind) /\ length < minLengths[kind] THEN TRUE
    ELSE IF Has(maxLengths, kind) /\ length > maxLengths[kind] THEN TRUE
    ELSE IF currentIndex + length > bufferLength THEN TRUE
    ELSE IF ~Has(optionTypes, kind) /\ length > 40 THEN TRUE
    ELSE IF kind = 5 /\ (length - 2) % 8 # 0 THEN TRUE
    ELSE FALSE

\* the length checks with an option that ends at the end of the buffer
\* taken as extending beyond it
isInvalidOptionLengthOffByOne(kind, length, currentIndex, bufferLength, minLengths, maxLengths, optionTypes) ==
    IF length < 2 THEN TRUE
    ELSE IF Has(minLengths, kind) /\ length < minLengths[kind] THEN TRUE
    ELSE IF Has(maxLengths, kind) /\ length > maxLengths[kind] THEN TRUE
    ELSE IF currentIndex + length >= bufferLength THEN TRUE
    ELSE IF ~Has(optionTypes, kind) /\ length > 40 THEN TRUE
    ELSE IF kind = 5 /\ (length - 2) % 8 # 0 THEN TRUE
    ELSE FALSE

\* the validator with a least length of 1
isInvalidOptionLengthOneAccepted(kind, length, currentIndex, bufferLength, minLengths, maxLengths, optionTypes) ==
    IF length < 1 THEN TRUE
    ELSE IF Has(minLengths, kind) /\ length < minLengths[kind] THEN TRUE
    ELSE IF Has(maxLengths, kind) /\ length > maxLengths[kind] THEN TRUE
    ELSE IF currentIndex + length > bufferLength THEN TRUE
    ELSE IF ~Has(optionTypes, kind) /\ length > 40 THEN TRUE
    ELSE IF kind = 5 /\ (length - 2) % 8 # 0 THEN TRUE
    ELSE FALSE

\* the validator without the test against the end of the buffer
isInvalidOptionLengthNoBounds(kind, length, currentIndex, bufferLength, minLengths, maxLengths, optionTypes) ==
    IF length < 2 THEN TRUE
    ELSE IF Has(minLengths, kind) /\ length < minLengths[kind] THEN TRUE
    ELSE IF Has(maxLengths, kind) /\ length > maxLengths[kind] THEN TRUE
    ELSE IF ~Has(optionTypes, kind) /\ length > 40 THEN TRUE
    ELSE IF kind = 5 /\ (length - 2) % 8 # 0 THEN TRUE
    ELSE FALSE

\* isInvalidOptionLength(kind, length, currentIndex, bufferLength,
\*                       minLengths, maxLengths, optionTypes)
isInvalidOptionLength(kind, length, currentIndex, bufferLength, minLengths, maxLengths, optionTypes) ==
    IF length < 2 THEN TRUE
    ELSE IF Has(minLengths, kind) /\ length < minLengths[kind] THEN TRUE
    ELSE IF Has(maxLengths, kind) /\ length > maxLengths[kind] THEN TRUE
    ELSE IF currentIndex + length > bufferLength THEN TRUE
    ELSE IF ~Has(optionTypes, kind) /\ length > 40 THEN TRUE
    ELSE IF kind = 5 /\ (length - 2) % 8 # 0 THEN TRUE
    ELSE FALSE

\* OPTION_TYPES[kind] || `Unknown-${kind}`
optionTypeOf(kind) ==
    IF Has(OPTION_TYPES, kind) THEN OPTION_TYPES[kind]
    ELSE "Unknown-" \o ToString(kind)

\* the loop returning the options pushed so far on an invalid length
RECURSIVE parseOptionsLoopPartialList(_, _, _)
parseOptionsLoopPartialList(optionsBuffer, i, options) ==
    IF ~(i < Len(optionsBuffer)) THEN options
    ELSE LET kind == optionsBuffer[i + 1]
         IN  IF kind = 0 THEN Append(options, [type |-> "EOL", kind |-> 0])
             ELSE IF kind = 1
             THEN parseOptionsLoopPartialList(optionsBuffer, i + 1,
                                   Append(options, [type |-> "NOP", kind |-> 1]))
             ELSE IF i + 1 >= Len(optionsBuffer) THEN options
             ELSE LET length == optionsBuffer[i + 2]
                  IN  IF isInvalidOptionLength(kind, length, i, Len(optionsBuffer),
                                               MIN_LENGTHS, MAX_LENGTHS, OPTION_TYPES)
                      THEN options
                      ELSE parseOptionsLoopPartialList(optionsBuffer, i + length,
                               Append(options,
                                      [type |-> optionTypeOf(kind),
                                       kind |-> kind,
                                       length |-> length,
                                       data |-> BufferSlice(optionsBuffer, i + 2, i + length)]))

\* the loop going on after an EndOfList byte as after a NoOp byte
RECURSIVE parseOptionsLoopPastEOL(_, _, _)
parseOptionsLoopPastEOL(optionsBuffer, i, options) ==
    IF ~(i < Len(optionsBuffer)) THEN options
    ELSE LET kind == optionsBuffer[i + 1]
         IN  IF kind = 0
             THEN parseOptionsLoopPastEOL(optionsBuffer, i + 1,
                                   Append(options, [type |-> "EOL", kind |-> 0]))
             ELSE IF kind = 1
             THEN parseOptionsLoopPastEOL(optionsBuffer, i + 1,
                                   Append(options, [type |-> "NOP", kind |-> 1]))
             ELSE IF i + 1 >= Len(optionsBuffer) THEN options
             ELSE LET length == optionsBuffer[i + 2]
                  IN  IF isInvalidOptionLength(kind, length, i, Len(optionsBuffer),
                                               MIN_LENGTHS, MAX_LENGTHS, OPTION_TYPES)
                      THEN << >>
                      ELSE parseOptionsLoopPastEOL(optionsBuffer, i + length,
                               Append(options,
                                      [type |-> optionTypeOf(kind),
                                       kind |-> kind,
                                       length |-> length,
                                       data |-> BufferSlice(optionsBuffer, i + 2, i + length)]))

\* the while loop of parseOptions, at cursor i with the options pushed so far
RECURSIVE parseOptionsLoop(_, _, _)
parseOptionsLoop(optionsBuffer, i, options) ==
    IF ~(i < Len(optionsBuffer)) THEN options
    ELSE LET kind == optionsBuffer[i + 1]
         IN  IF kind = 0 THEN Append(options, [type |-> "EOL", kind |-> 0])
             ELSE IF kind = 1
             THEN parseOptionsLoop(optionsBuffer, i + 1,
                                   Append(options, [type |-> "NOP", kind |-> 1]))
             ELSE IF i + 1 >= Len(optionsBuffer) THEN options
             ELSE LET length == optionsBuffer[i + 2]
                  IN  IF isInvalidOptionLength(kind, length, i, Len(optionsBuffer),
                                               MIN_LENGTHS, MAX_LENGTHS, OPTION_TYPES)
                      THEN << >>
                      ELSE parseOptionsLoop(optionsBuffer, i + length,
                               Append(options,
                                      [type |-> optionTypeOf(kind),
                                       kind |-> kind,
                                       length |-> length,
                                       data |-> BufferSlice(optionsBuffer, i + 2, i + length)]))

\* parseOptions(optionsBuffer)
parseOptions(optionsBuffer) == parseOptionsLoop(optionsBuffer, 0, << >>)

\* the while loop of parseOptions, at cursor i: the values of i at which an
\* iteration started, in order, after those of seen
RECURSIVE parseOptionsCursors(_, _, _)
parseOptionsCursors(optionsBuffer, i, seen) ==
    IF ~(i < Len(optionsBuffer)) THEN seen
    ELSE LET kind == optionsBuffer[i + 1]
             started == Append(seen, i)
         IN  IF kind = 0 THEN started
             ELSE IF kind = 1
             THEN parseOptionsCursors(optionsBuffer, i + 1, started)
             ELSE IF i + 1 >= Len(optionsBuffer) THEN started
             ELSE LET length == optionsBuffer[i + 2]
                  IN  IF isInvalidOptionLength(kind, length, i, Len(optionsBuffer),
                                               MIN_LENGTHS, MAX_LENGTHS, OPTION_TYPES)
                      THEN started
                      ELSE parseOptionsCursors(optionsBuffer, i + length, started)

\* the while loop of parseOptions, at cursor i: the offsets of optionsBuffer
\* it reads (the kind, the length byte, the bytes slice copies), added to
\* reads
RECURSIVE parseOptionsReads(_, _, _)
parseOptionsReads(optionsBuffer, i, reads) ==
    IF ~(i < Len(optionsBuffer)) THEN reads
    ELSE LET kind == optionsBuffer[i + 1]
             withKind == reads \cup {i}
         IN  IF kind = 0 THEN withKind
             ELSE IF kind = 1
             THEN parseOptionsReads(optionsBuffer, i + 1, withKind)
             ELSE IF i + 1 >= Len(optionsBuffer) THEN withKind
             ELSE LET length == optionsBuffer[i + 2]
                      withLength == withKind \cup {i + 1}
                      end == IF i + length > Len(optionsBuffer)
                             THEN Len(optionsBuffer) ELSE i + length
                  IN  IF isInvalidOptionLength(kind, length, i, Len(optionsBuffer),
                                               MIN_LENGTHS, MAX_LENGTHS, OPTION_TYPES)
                      THEN withLength
                      ELSE parseOptionsReads(optionsBuffer, i + length,
                                             withLength \cup (i + 2 .. end - 1))

\* the empty Buffer Decode returns on a rejected packet
DecodeRejected == [kind |-> "Buffer", buf |-> << >>]

reservedOfFirstDefinition(dataOffsetByte) == BitAnd(dataOffsetByte, 4)

\* dataOffsetByte & 0x0E
reservedOf(dataOffsetByte) == BitAnd(dataOffsetByte, 14)

\* a RangeError out of a read past the end of the packet
DecodeThrown == [kind |-> "Thrown", buf |-> << >>]

minPacketSizeWithoutSkip(tcpStart) == 20

\* const minPacketSize = tcpStart + 20
minPacketSizeOf(tcpStart) == tcpStart + 20

dataPayloadFromStart(packet, tcpStart, headerLength) ==
    BufferSlice(packet, headerLength, Len(packet))

\* packet.slice(tcpStart + headerLength)
dataPayloadOf(packet, tcpStart, headerLength) ==
    BufferSlice(packet, tcpStart + headerLength, Len(packet))

\* packet.slice(tcpStart + 20, tcpStart + 20 + optionsLength)
optionsBufferOf(packet, tcpStart, headerLength) ==
    BufferSlice(packet, tcpStart + 20, tcpStart + 20 + (headerLength - 20))

\* Decode(packet, skipIPHeader); the reads of bytes 0 to 12 of the header
\* come before the first check after the size check and throw past the end
\* of the packet
Decode(packet, skipIPHeader) ==
    LET tcpStart == IF skipIPHeader THEN 20 ELSE 0
        minPacketSize == minPacketSizeOf(tcpStart)
    IN  IF Len(packet) < minPacketSize THEN DecodeRejected
        ELSE IF Len(packet) < tcpStart + 13 THEN DecodeThrown
        ELSE LET dataOffsetByte == ReadUInt8(packet, tcpStart + 12)
                 dataOffset == BitAnd(ShiftRight(dataOffsetByte, 4), 15)
                 reserved == reservedOf(dataOffsetByte)
                 availableLength == Len(packet) - tcpStart
                 headerLength == dataOffset * 4
             IN  IF reserved # 0 THEN DecodeRejected
                 ELSE IF ~isValidDataOffset(dataOffset, availableLength)
                 THEN DecodeRejected
                 ELSE [kind |-> "Object",
                       sourcePort |-> ReadUInt16BE(packet, tcpStart + 0),
                       destinationPort |-> ReadUInt16BE(packet, tcpStart + 2),
                       sequenceNumber |-> ReadUInt32BE(packet, tcpStart + 4),
                       acknowledgmentNumber |-> ReadUInt32BE(packet, tcpStart + 8),
                       dataOffset |-> dataOffset,
                       flags |-> parseFlags(ReadUInt8(packet, tcpStart + 13)),
                       windowSize |-> ReadUInt16BE(packet, tcpStart + 14),
                       checksum |-> ReadUInt16BE(packet, tcpStart + 16),
                       urgentPointer |-> ReadUInt16BE(packet, tcpStart + 18),
                       options |->
                           IF headerLength > 20
                           THEN parseOptions(
                                    optionsBufferOf(packet, tcpStart, headerLength))
                           ELSE << >>,
                       dataPayload |->
                           dataPayloadOf(packet, tcpStart, headerLength)]

\* the bytes of the packet after Decode: Decode and parseOptions read and
\* slice the packet and have no write statement
DecodeEffects(packet, skipIPHeader) == [packet |-> packet, written |-> {}]

-----------------------------------------------------------------------------
(* The callers' inputs *)

IP_10_0_0_1 == <<"1", "0", ".", "0", ".", "0", ".", "1">>

IP_192_168_1_20 ==
    <<"1", "9", "2", ".", "1", "6", "8", ".", "1", ".", "2", "0">>

IP_255_255_255_255 ==
    <<"2", "5", "5", ".", "2", "5", "5", ".", "2", "5", "5", ".", "2", "5", "5">>

IP_0_0_0_0 == <<"0", ".", "0", ".", "0", ".", "0">>

IP_256_1_1_1 == <<"2", "5", "6", ".", "1", ".", "1", ".", "1">>

IP_192_168_1 == <<"1", "9", "2", ".", "1", "6", "8", ".", "1">>

ValidAddresses == {IP_10_0_0_1, IP_192_168_1_20, IP_255_255_255_255, IP_0_0_0_0}

IP_10_0_0_1abc ==
    <<"1", "0", ".", "0", ".", "0", ".", "1", "a", "b", "c">>

IP_10_0_0_abc == <<"1", "0", ".", "0", ".", "0", ".", "a", "b", "c">>

IP_10_0_0_neg1 == <<"1", "0", ".", "0", ".", "0", ".", "-", "1">>

IP_1_2_3_4_5 == <<"1", ".", "2", ".", "3", ".", "4", ".", "5">>

InvalidAddresses ==
    {IP_256_1_1_1, IP_192_168_1, IP_10_0_0_1abc, IP_10_0_0_abc,
     IP_10_0_0_neg1, IP_1_2_3_4_5}

FlagNames == {"fin", "syn", "rst", "psh", "ack", "urg", "ece", "cwr"}

\* 16-bit values, 70000 being the out-of-range port of the test suite
Ports == {0, 40000, 65535, 70000}

\* 0, 123456, 0x12345678, 4294967295, and 5000000000 (above 32 bits)
Numbers32 ==
    {U32(0, 0), U32(1, 57920), U32(4660, 22136), U32(65535, 65535),
     U32(76293, 61952)}

PayloadBytes == {0, 65, 255}

\* every sequence over S of length at most n
SeqsUpTo(S, n) == UNION {[1 .. k -> S] : k \in 0 .. n}

Payloads == SeqsUpTo(PayloadBytes, MaxPayloadLen)

\* what the option builders return, optEOL apart
BuilderOptions ==
    {optNOP, optMSS(1460), optWScale(7), optSACK,
     optTimestamp(U32(65535, 65535), U32(0, 0)),
     optTimestamp(U32(4660, 22136), U32(34661, 17185))}

\* options buffers that no builder made: n zero or NoOp bytes, and the MSS
\* option with a length byte of 255 of the test suite
RawOptions ==
    {BufferAllocFill(n, f) : n \in 0 .. MaxRawOptions, f \in {0, 1}}
        \cup {<<2, 255, 5, 180>>}

\* Buffer.concat(chunks)
RECURSIVE BufferConcat(_)
BufferConcat(chunks) ==
    IF chunks = << >> THEN << >>
    ELSE Head(chunks) \o BufferConcat(Tail(chunks))

DefaultArgs ==
    [srcIp |-> IP_10_0_0_1, destIp |-> IP_192_168_1_20,
     srcPort |-> 40000, destPort |-> 80,
     seqNumber |-> U32(1, 57920), ackNumber |-> U32(0, 0),
     flags |-> {"syn"}, windowSize |-> 65535, urgentPointer |-> 0,
     options |-> << >>, data |-> << >>]

\* a call of Encode: its arguments, and the chunks the caller concatenated
\* into the options argument
Call(a, cs) == [args |-> [a EXCEPT !.options = BufferConcat(cs)], chunks |-> cs]

FieldCalls ==
    {Call([DefaultArgs EXCEPT !.srcPort = sp, !.destPort = dp,
                              !.seqNumber = sq, !.ackNumber = ak,
                              !.windowSize = w, !.urgentPointer = u,
                              !.data = d], cs) :
        sp \in Ports, dp \in {80, 65535}, sq \in Numbers32,
        ak \in {U32(0, 0), U32(65535, 65535)}, w \in {0, 29200, 65535},
        u \in {0, 258}, d \in {<< >>, <<65, 0, 255>>},
        cs \in {<< >>, <<optWScale(7)>>}}
        \cup {Call([DefaultArgs EXCEPT !.windowSize = 25939], << >>)}

FlagCalls ==
    {Call([DefaultArgs EXCEPT !.flags = f, !.data = d], cs) :
        f \in SUBSET FlagNames, d \in {<< >>, <<65>>},
        cs \in {<< >>, <<optMSS(1460), optSACK>>}}

AddressCalls ==
    {Call([DefaultArgs EXCEPT !.srcIp = s, !.destIp = t, !.data = d], << >>) :
        s \in ValidAddresses \cup InvalidAddresses,
        t \in ValidAddresses \cup InvalidAddresses,
        d \in {<< >>, <<255>>}}

\* the options of a connection request: MSS, window scale, SACK permitted
\* and timestamps
SynOptions ==
    <<optMSS(1460), optWScale(7), optSACK,
      optTimestamp(U32(65535, 65535), U32(0, 0))>>

\* four timestamps options: the 40 bytes a header has room for
FullOptions ==
    <<optTimestamp(U32(4660, 22136), U32(34661, 17185)),
      optTimestamp(U32(65535, 65535), U32(0, 0)),
      optTimestamp(U32(4660, 22136), U32(34661, 17185)),
      optTimestamp(U32(65535, 65535), U32(0, 0))>>

OptionCalls ==
    {Call(DefaultArgs, cs) : cs \in SeqsUpTo(BuilderOptions, MaxOptions)}
        \cup {Call(DefaultArgs, SynOptions), Call(DefaultArgs, FullOptions)}
        \cup {Call(DefaultArgs, <<r>>) : r \in RawOptions}

\* the largest value of the 16-bit segment length field of the pseudo-header
MaxSegmentLength == 65535

\* the shortest payload that no longer fits a segment with a 20-byte header
OversizedPayload == BufferAlloc(MaxSegmentLength - 20 + 1)

PayloadCalls ==
    {Call([DefaultArgs EXCEPT !.data = d], cs) :
        d \in Payloads, cs \in {<< >>, <<optSACK>>, <<optWScale(7), optMSS(536)>>}}
        \cup {Call([DefaultArgs EXCEPT !.data = OversizedPayload], << >>),
              Call([DefaultArgs EXCEPT !.destIp = IP_10_0_0_1,
                                       !.seqNumber = U32(0, 0),
                                       !.windowSize = 0, !.flags = {"ack"},
                                       !.data = <<255, 65>>], << >>)}

EncodeCalls ==
    FieldCalls \cup FlagCalls \cup AddressCalls \cup OptionCalls \cup PayloadCalls

\* a 20-byte IPv4 header in front of a segment
IPHeaderBytes ==
    <<69, 0, 0, 40, 0, 1, 0, 0, 64, 6, 0, 0, 10, 0, 0, 1, 192, 168, 1, 20>>

\* hand-made packets: a fixed header whose byte 12 is b12, followed by n
\* NoOp bytes, behind an IP header or not, or cut to its first c bytes
CraftedHeader(b12) ==
    <<156, 64, 0, 80, 0, 1, 226, 64, 0, 0, 0, 0, b12, 2, 255, 255, 0, 0, 0, 0>>

CraftedTails == {0, 4, 20, 40, 44}

CraftedCuts == {0, 10, 19}

CraftedPackets ==
    {ip \o CraftedHeader(b12) \o BufferAllocFill(n, 1) :
        ip \in {<< >>, IPHeaderBytes}, b12 \in Byte, n \in CraftedTails}
        \cup {SubSeq(CraftedHeader(80), 1, c) : c \in CraftedCuts}

\* packets whose header declares an options region: the region, behind the
\* fixed header and an IP header or not, and in front of a 2-byte payload
OptionsPacket(ip, region) ==
    ip \o CraftedHeader((5 + Len(region) \div 4) * 16) \o region \o <<72, 105>>

\* well-formed options in front of the option a packet is made to carry
PrefixChunks ==
    {<< >>, <<optNOP>>, <<optMSS(1460)>>, <<optSACK, optNOP>>,
     <<optNOP, optWScale(7)>>}

\* the kinds of the tables of parseOptions, and kinds they do not hold
OptionKinds == {2, 3, 4, 5, 8, 14, 15} \cup {6, 7, 30, 253, 255}

OptionLengthBytes ==
    {0, 1, 2, 3, 4, 5, 9, 10, 11, 18, 19, 26, 34, 35, 39, 40, 41, 42, 255}

RegionSizes == {4, 12, 40}

\* a region of the given size: the prefix, an option header with the kind
\* and the length byte, then NoOp bytes
LengthRegions ==
    {BufferConcat(t[1]) \o <<t[2], t[3]>>
         \o BufferAllocFill(t[4] - Len(BufferConcat(t[1])) - 2, 1) :
        t \in {u \in PrefixChunks \X OptionKinds \X OptionLengthBytes \X RegionSizes :
                  Len(BufferConcat(u[1])) + 2 <= u[4]}}

\* a region whose last byte is a kind with no length byte after it
\* well-formed options that end one byte before a 4-byte boundary
TruncatedPrefixChunks ==
    {<<optNOP, optNOP, optNOP>>, <<optWScale(7)>>,
     <<optMSS(1460), optNOP, optSACK>>}

TruncatedRegions ==
    {BufferConcat(cs) \o <<kind>> :
        cs \in TruncatedPrefixChunks, kind \in OptionKinds}

\* a region with an EndOfList byte and bytes after it
EOLRegions ==
    {BufferConcat(cs) \o optEOL \o tail
         \o BufferAllocFill((4 - ((Len(BufferConcat(cs)) + 1 + Len(tail)) % 4)) % 4, 255) :
        cs \in PrefixChunks,
        tail \in {<< >>, <<0, 0, 0>>, <<1, 1>>, <<2, 255, 5, 180>>, <<5, 11>>,
                  <<9>>, <<2, 4, 5, 180>>, <<3, 0, 7>>}}

OptionRegions == LengthRegions \cup TruncatedRegions \cup EOLRegions

\* the Decode calls on packets from the wire: every hand-made packet with
\* both values of skipIPHeader, and every options region behind an IP header
\* that is skipped and behind none
DecodeCalls ==
    {[packet |-> p, skipIPHeader |-> skip] : p \in CraftedPackets, skip \in BOOLEAN}
        \cup {[packet |-> OptionsPacket(ip, region), skipIPHeader |-> ip # << >>] :
                  ip \in {<< >>, IPHeaderBytes}, region \in OptionRegions}

\* bytes of the buffers handed to the checksum routines
ChecksumBytes == {0, 255}

\* a buffer handed to a checksum routine
ChecksumParts == SeqsUpTo(ChecksumBytes, MaxPartLen)

\* bytes of the buffers handed to the byte accessors
AccessBytes == {0, 255}

\* the buffer arguments of the byte accessors
AccessBuffers ==
    {BufferOf(b) : b \in SeqsUpTo(AccessBytes, MaxAccessLen)} \cup {NotABuffer}

\* the from arguments of the byte accessors
AccessOffsets == 0 .. MaxAccessLen

\* the value arguments of the write accessors
AccessValues ==
    {Whole(n) : n \in {-1, 0, 1, 255, 256, 258, 65535, 65536}}
        \cup {WholeAndHalf(n) : n \in {-1, 1, 255, 65535}}

OptPaddingInputs ==
    RawOptions \cup {BufferConcat(cs) : cs \in SeqsUpTo(BuilderOptions \cup {optEOL}, 2)}

-----------------------------------------------------------------------------
(* The state: the last call and what it returned *)

VARIABLES
    op,            \* the last operation called
    args,          \* the arguments of the last Encode call
    chunks,        \* the buffers concatenated into args.options
    segment,       \* what that Encode call returned or threw
    ipHeader,      \* the bytes the caller put in front of the segment
    packet,        \* the packet of the last Decode call
    skipIPHeader,  \* its skipIPHeader argument
    output,        \* what that Decode call returned
    buf,           \* the argument of the last optPadding call
    padded,        \* what that optPadding call returned
    sums,          \* the last buffers summed and what each routine returned
    access,        \* the last byte accessor call and what it left
    held           \* the caller's Buffers after the last call, and those written

\* no checksum was computed
NoSums == [parts |-> << >>, tcp |-> 0, ipv4 |-> 0, udp |-> 0]

\* no byte accessor was called
NoAccess ==
    [fn |-> "none", buffer |-> NotABuffer, value |-> Whole(0), from |-> 0,
     returned |-> 0, bytes |-> << >>]

\* the caller holds no Buffer
NoHeld == [options |-> << >>, data |-> << >>, packet |-> << >>, written |-> {}]

vars == <<op, args, chunks, segment, ipHeader, packet, skipIPHeader, output,
          buf, padded, sums, access, held>>

Init ==
    /\ op = "none"
    /\ args = DefaultArgs
    /\ chunks = << >>
    /\ segment = Returned(<< >>)
    /\ ipHeader = << >>
    /\ packet = << >>
    /\ skipIPHeader = FALSE
    /\ output = DecodeRejected
    /\ buf = << >>
    /\ padded = << >>
    /\ sums = NoSums
    /\ access = NoAccess
    /\ held = NoHeld

\* a caller builds a segment
CallEncode ==
    /\ op = "none"
    /\ \E c \in EncodeCalls :
        /\ op' = "Encode"
        /\ args' = c.args
        /\ chunks' = c.chunks
        /\ segment' = Encode(c.args)
        /\ ipHeader' = << >>
        /\ packet' = << >>
        /\ skipIPHeader' = FALSE
        /\ output' = DecodeRejected
        /\ buf' = << >>
        /\ padded' = << >>
        /\ sums' = NoSums
        /\ access' = NoAccess
        /\ held' = LET left == EncodeEffects(c.args)
                   IN  [options |-> left.options, data |-> left.data,
                        packet |-> << >>, written |-> left.written]

\* a caller decodes the segment Encode returned, behind an IP header or not
DecodeSegment ==
    /\ op = "Encode"
    /\ ~segment.threw
    /\ \E ip \in {<< >>, IPHeaderBytes}, skip \in BOOLEAN :
        /\ op' = "DecodeSegment"
        /\ ipHeader' = ip
        /\ packet' = ip \o segment.buf
        /\ skipIPHeader' = skip
        /\ output' = Decode(ip \o segment.buf, skip)
        /\ held' = LET left == DecodeEffects(ip \o segment.buf, skip)
                   IN  [held EXCEPT !.packet = left.packet,
                                    !.written = held.written \cup left.written]
        /\ UNCHANGED <<args, chunks, segment, buf, padded, sums, access>>

\* a caller decodes a packet from the wire
DecodePacket ==
    /\ op = "none"
    /\ \E c \in DecodeCalls :
        /\ op' = "DecodePacket"
        /\ args' = DefaultArgs
        /\ chunks' = << >>
        /\ segment' = Returned(<< >>)
        /\ ipHeader' = << >>
        /\ packet' = c.packet
        /\ skipIPHeader' = c.skipIPHeader
        /\ output' = Decode(c.packet, c.skipIPHeader)
        /\ buf' = << >>
        /\ padded' = << >>
        /\ sums' = NoSums
        /\ access' = NoAccess
        /\ held' = LET left == DecodeEffects(c.packet, c.skipIPHeader)
                   IN  [options |-> << >>, data |-> << >>,
                        packet |-> left.packet, written |-> left.written]

\* a caller pads an options buffer
CallOptPadding ==
    /\ op = "none"
    /\ \E b \in OptPaddingInputs :
        /\ op' = "optPadding"
        /\ args' = DefaultArgs
        /\ chunks' = << >>
        /\ segment' = Returned(<< >>)
        /\ ipHeader' = << >>
        /\ packet' = << >>
        /\ skipIPHeader' = FALSE
        /\ output' = DecodeRejected
        /\ buf' = b
        /\ padded' = optPadding(b)
        /\ sums' = NoSums
        /\ access' = NoAccess
        /\ held' = NoHeld

\* a caller sums the same bytes with the routines of the three codecs
CallChecksums ==
    /\ op = "none"
    /\ \E p \in ChecksumParts, h \in ChecksumParts, d \in ChecksumParts :
        /\ op' = "checksums"
        /\ sums' = [parts |-> <<p, h, d>>,
                    tcp |-> onesComplementSum(p \o h \o d),
                    ipv4 |-> ipv4OnesComplementSum(p \o h \o d),
                    udp |-> calculateChecksum(p, h, d)]
        /\ access' = NoAccess
        /\ held' = NoHeld
        /\ args' = DefaultArgs
        /\ chunks' = << >>
        /\ segment' = Returned(<< >>)
        /\ ipHeader' = << >>
        /\ packet' = << >>
        /\ skipIPHeader' = FALSE
        /\ output' = DecodeRejected
        /\ buf' = << >>
        /\ padded' = << >>

\* the caller drops the results; nothing is kept between calls
\* a caller reads a field of a buffer through a checked accessor
CallAccessorRead ==
    /\ op = "none"
    /\ \E fn \in {"checkAndRead16", "checkAndRead8"}, b \in AccessBuffers, from \in AccessOffsets :
        LET r == IF fn = "checkAndRead16" THEN checkAndRead16(b, from)
                 ELSE checkAndRead8(b, from)
        IN  /\ op' = "access"
            /\ access' = [fn |-> fn, buffer |-> b, value |-> Whole(0), from |-> from,
                          returned |-> r.returned, bytes |-> r.bytes]
            /\ args' = DefaultArgs
            /\ chunks' = << >>
            /\ segment' = Returned(<< >>)
            /\ ipHeader' = << >>
            /\ packet' = << >>
            /\ skipIPHeader' = FALSE
            /\ output' = DecodeRejected
            /\ buf' = << >>
            /\ padded' = << >>
            /\ sums' = NoSums
            /\ held' = NoHeld

\* a caller writes a field of a buffer through a checked accessor
CallAccessorWrite ==
    /\ op = "none"
    /\ \E fn \in {"checkAndWrite16", "checkAndWrite8"}, b \in AccessBuffers, value \in AccessValues, from \in AccessOffsets :
        LET r == IF fn = "checkAndWrite16" THEN checkAndWrite16(b, value, from)
                 ELSE checkAndWrite8(b, value, from)
        IN  /\ op' = "access"
            /\ access' = [fn |-> fn, buffer |-> b, value |-> value, from |-> from,
                          returned |-> r.returned, bytes |-> r.bytes]
            /\ args' = DefaultArgs
            /\ chunks' = << >>
            /\ segment' = Returned(<< >>)
            /\ ipHeader' = << >>
            /\ packet' = << >>
            /\ skipIPHeader' = FALSE
            /\ output' = DecodeRejected
            /\ buf' = << >>
            /\ padded' = << >>
            /\ sums' = NoSums
            /\ held' = NoHeld

Forget ==
    /\ op # "none"
    /\ op' = "none"
    /\ args' = DefaultArgs
    /\ chunks' = << >>
    /\ segment' = Returned(<< >>)
    /\ ipHeader' = << >>
    /\ packet' = << >>
    /\ skipIPHeader' = FALSE
    /\ output' = DecodeRejected
    /\ buf' = << >>
    /\ padded' = << >>
    /\ sums' = NoSums
    /\ access' = NoAccess
    /\ held' = NoHeld

Next ==
    \/ CallEncode
    \/ DecodeSegment
    \/ DecodePacket
    \/ CallOptPadding
    \/ CallChecksums
    \/ CallAccessorRead
    \/ CallAccessorWrite
    \/ Forget

Spec == Init /\ [][Next]_vars

-----------------------------------------------------------------------------
(* Properties *)

\* the number of bytes that bring a length of n to the next multiple of 4
PadCount(n) == (4 - (n % 4)) % 4

\* the length of the options of a on the wire
PaddedLength(a) == Len(a.options) + PadCount(Len(a.options))

\* the arguments of Encode are within their documented ranges
WellFormedArgs(a) ==
    /\ a.srcIp \in ValidAddresses
    /\ a.destIp \in ValidAddresses
    /\ a.srcPort \in 0 .. 65535
    /\ a.destPort \in 0 .. 65535
    /\ a.seqNumber[1] \in 0 .. 65535 /\ a.seqNumber[2] \in 0 .. 65535
    /\ a.ackNumber[1] \in 0 .. 65535 /\ a.ackNumber[2] \in 0 .. 65535
    /\ a.windowSize \in 0 .. 65535
    /\ a.urgentPointer \in 0 .. 65535
    /\ PaddedLength(a) <= 40

\* Encode was called and returned a segment
SegmentReturned ==
    /\ op \in {"Encode", "DecodeSegment"}
    /\ ~segment.threw
    /\ segment.buf # << >>

\* Decode was called on the very segment Encode returned
DecodedTheSegment ==
    /\ op = "DecodeSegment"
    /\ ipHeader = << >>
    /\ ~skipIPHeader

\* the fixed fields and the payload of the decoded segment are those passed
\* to Encode
FieldsRoundTrip ==
    /\ output.kind = "Object"
    /\ output.sourcePort = args.srcPort
    /\ output.destinationPort = args.destPort
    /\ output.sequenceNumber = args.seqNumber
    /\ output.acknowledgmentNumber = args.ackNumber
    /\ output.windowSize = args.windowSize
    /\ output.urgentPointer = args.urgentPointer
    /\ output.dataPayload = args.data

\* C1 as stated: for every valid input, whatever the payload, Encode returns
\* a segment and Decode of it returns the fixed fields and the payload that
\* were passed to Encode.
C1_RoundTripAnyPayload ==
    (op \in {"Encode", "DecodeSegment"} /\ WellFormedArgs(args)) =>
        /\ SegmentReturned
        /\ DecodedTheSegment => FieldsRoundTrip

\* C1 amended: for every valid input whose segment (20 bytes, the padded
\* options and the payload) is at most 65535 bytes long, Encode returns a
\* segment and Decode of it returns sourcePort, destinationPort,
\* sequenceNumber, acknowledgmentNumber, windowSize and urgentPointer equal
\* to the values passed to Encode and dataPayload equal to the payload.
C1_RoundTripFields ==
    (/\ op \in {"Encode", "DecodeSegment"}
     /\ WellFormedArgs(args)
     /\ 20 + PaddedLength(args) + Len(args.data) <= 65535) =>
        /\ SegmentReturned
        /\ DecodedTheSegment => FieldsRoundTrip

C1_Witness ==
    /\ DecodedTheSegment
    /\ WellFormedArgs(args)
    /\ args.srcPort = 40000
    /\ args.seqNumber = U32(65535, 65535)
    /\ args.urgentPointer = 258
    /\ args.options # << >>
    /\ args.data = <<65, 0, 255>>
    /\ FieldsRoundTrip

\* C4: the result of optPadding has a length that is a multiple of 4.
C4_PaddingInvariant ==
    op = "optPadding" => Len(padded) % 4 = 0

C4_Witness ==
    /\ op = "optPadding"
    /\ Len(buf) % 4 = 1
    /\ Len(padded) = Len(buf) + 3

BuiltByBuilders == \A i \in 1 .. Len(chunks) : chunks[i] \in BuilderOptions

\* the decoded option at position i is the builder option chunks[i]
SameOption(o, c) ==
    /\ o.kind = c[1]
    /\ o.kind # 1 => /\ o.length = Len(c)
                     /\ o.data = SubSeq(c, 3, Len(c))

\* C2: for every sequence of builder options (no EOL) of at most 40 bytes,
\* the options of Decode(Encode(...)) are the same kinds with the same data
\* bytes in the same order, followed only by the 0 to 3 NoOp options of the
\* padding: none is dropped, duplicated or reordered.
C2_OptionsRoundTrip ==
    (DecodedTheSegment /\ WellFormedArgs(args) /\ BuiltByBuilders) =>
        /\ output.kind = "Object"
        /\ Len(output.options) = Len(chunks) + PadCount(Len(args.options))
        /\ \A i \in 1 .. Len(output.options) :
              IF i <= Len(chunks)
              THEN SameOption(output.options[i], chunks[i])
              ELSE output.options[i].kind = 1

C2_Witness ==
    /\ DecodedTheSegment
    /\ WellFormedArgs(args)
    /\ chunks = SynOptions
    /\ Len(output.options) = 5
    /\ output.options[4].kind = 8
    /\ output.options[4].data = <<255, 255, 255, 255, 0, 0, 0, 0>>
    /\ output.options[5].kind = 1

FlagWeight ==
    ("fin" :> 1) @@ ("syn" :> 2) @@ ("rst" :> 4) @@ ("psh" :> 8) @@
    ("ack" :> 16) @@ ("urg" :> 32) @@ ("ece" :> 64) @@ ("cwr" :> 128)

FlagUpper ==
    ("fin" :> "FIN") @@ ("syn" :> "SYN") @@ ("rst" :> "RST") @@
    ("psh" :> "PSH") @@ ("ack" :> "ACK") @@ ("urg" :> "URG") @@
    ("ece" :> "ECE") @@ ("cwr" :> "CWR")

RECURSIVE SumWeights(_)
SumWeights(S) ==
    IF S = {} THEN 0
    ELSE LET f == CHOOSE x \in S : TRUE
         IN  FlagWeight[f] + SumWeights(S \ {f})

\* C3: for each of the 256 flag combinations, byte 13 of the segment is the
\* OR of the bits of exactly the flags that are set, and Decode of the
\* segment returns exactly the names of those flags, each once.
C3_FlagsRoundTrip ==
    /\ SegmentReturned => segment.buf[14] = SumWeights(args.flags)
    /\ (SegmentReturned /\ DecodedTheSegment) =>
          /\ output.kind = "Object"
          /\ {output.flags[i] : i \in 1 .. Len(output.flags)}
                = {FlagUpper[f] : f \in args.flags}
          /\ Len(output.flags) = Cardinality(args.flags)

C3_Witness ==
    /\ SegmentReturned
    /\ DecodedTheSegment
    /\ args.flags = {"syn", "ece", "cwr"}
    /\ segment.buf[14] = 194
    /\ output.flags = <<"CWR", "ECE", "SYN">>

\* C6: Encode returns no segment when the padded options are longer than
\* 40 bytes, and no returned segment has a header longer than 60 bytes.
C6_OversizedOptionsRejected ==
    /\ (op = "Encode" /\ PaddedLength(args) > 40) =>
          (segment.threw \/ segment.buf = << >>)
    /\ SegmentReturned => Len(segment.buf) - Len(args.data) <= 60

C6_Witness ==
    /\ op = "Encode"
    /\ Len(args.options) = 41
    /\ args.srcIp \in ValidAddresses
    /\ args.destIp \in ValidAddresses
    /\ segment.threw

\* C7: every segment Encode returns is 20 + paddedOptionsLength +
\* payloadLength bytes long, the upper 4 bits of its byte 12 are
\* (20 + paddedOptionsLength) / 4, in 5..15 and 5 without options, and the
\* 3 reserved bits of byte 12 are zero.
C7_HeaderControlWord ==
    SegmentReturned =>
        /\ Len(segment.buf) = 20 + PaddedLength(args) + Len(args.data)
        /\ (20 + PaddedLength(args)) % 4 = 0
        /\ segment.buf[13] \div 16 = (20 + PaddedLength(args)) \div 4
        /\ segment.buf[13] \div 16 \in 5 .. 15
        /\ args.options = << >> => segment.buf[13] \div 16 = 5
        /\ (segment.buf[13] \div 2) % 8 = 0

C7_Witness ==
    /\ op = "Encode"
    /\ SegmentReturned
    /\ Len(args.options) = 39
    /\ Len(segment.buf) = 60
    /\ segment.buf[13] = 240

\* the octets of the well-formed addresses
AddressOctets ==
    (IP_10_0_0_1 :> <<10, 0, 0, 1>>) @@
    (IP_192_168_1_20 :> <<192, 168, 1, 20>>) @@
    (IP_255_255_255_255 :> <<255, 255, 255, 255>>) @@
    (IP_0_0_0_0 :> <<0, 0, 0, 0>>)

\* the reference Internet checksum: the sum of the 16-bit big-endian words,
\* a trailing odd byte being the high byte of a word, with the carries
\* above 16 bits folded back in until none is left, complemented
RECURSIVE RefWordSum(_)
RefWordSum(b) ==
    IF b = << >> THEN 0
    ELSE IF Len(b) = 1 THEN b[1] * 256
    ELSE b[1] * 256 + b[2] + RefWordSum(SubSeq(b, 3, Len(b)))

RECURSIVE RefFold(_)
RefFold(x) == IF x > 65535 THEN RefFold((x % 65536) + (x \div 65536)) ELSE x

RefChecksum(b) == 65535 - RefFold(RefWordSum(b))

\* 4 source octets, 4 destination octets, 0x00, 0x06, the segment length
RefPseudoHeader(a, length) ==
    AddressOctets[a.srcIp] \o AddressOctets[a.destIp]
        \o <<0, 6, length \div 256, length % 256>>

ZeroChecksumField(b) == [b EXCEPT ![17] = 0, ![18] = 0]

\* C8: for addresses of four octets, tcpCheckSum(src, dst, segment) is the
\* reference Internet checksum of the 12-byte pseudo-header followed by the
\* segment, and bytes 16-17 of the
\* segment Encode returns hold, big-endian, that checksum computed with the
\* checksum field zero.
C8_ChecksumIsReference ==
    (/\ SegmentReturned
     /\ args.srcIp \in ValidAddresses
     /\ args.destIp \in ValidAddresses) =>
        /\ tcpCheckSum(args.srcIp, args.destIp, segment.buf)
              = RefChecksum(RefPseudoHeader(args, Len(segment.buf)) \o segment.buf)
        /\ segment.buf[17] * 256 + segment.buf[18]
              = RefChecksum(RefPseudoHeader(args, Len(segment.buf))
                                \o ZeroChecksumField(segment.buf))

\* the word sum of a returned segment, its checksum field zero
ZeroedWordSum ==
    RefWordSum(RefPseudoHeader(args, Len(segment.buf))
                   \o ZeroChecksumField(segment.buf))

\* a returned segment whose words sum to more than 16 bits, one fold of the
\* sum leaving a carry again
FoldsTwice ==
    /\ op = "Encode"
    /\ SegmentReturned
    /\ args.srcIp \in ValidAddresses
    /\ args.destIp \in ValidAddresses
    /\ ZeroedWordSum > 65535
    /\ (ZeroedWordSum % 65536) + (ZeroedWordSum \div 65536) > 65535

\* an odd-length segment whose words sum to more than 16 bits
C8_Witness ==
    /\ op = "Encode"
    /\ SegmentReturned
    /\ args.srcIp \in ValidAddresses
    /\ args.destIp \in ValidAddresses
    /\ Len(segment.buf) % 2 = 1
    /\ ZeroedWordSum > 65535
    /\ segment.buf[17] * 256 + segment.buf[18]
          = tcpCheckSum(args.srcIp, args.destIp, ZeroChecksumField(segment.buf))

\* a Decode call and where it starts to read
DecodeCalled == op \in {"DecodeSegment", "DecodePacket"}

TcpStart == IF skipIPHeader THEN 20 ELSE 0

Decoded == DecodeCalled /\ output.kind = "Object"

\* the options region the header of the packet declares
Region ==
    BufferSlice(packet, TcpStart + 20,
                TcpStart + (packet[TcpStart + 13] \div 16) * 4)

IsPrefix(a, b) == Len(a) <= Len(b) /\ SubSeq(b, 1, Len(a)) = a

\* the region starts with the well-formed options cs, and an option with a
\* kind other than 0 and 1 and a length byte follows them
CarriesAfter(cs) ==
    LET p == Len(BufferConcat(cs))
    IN  /\ IsPrefix(BufferConcat(cs), Region)
        /\ p + 2 <= Len(Region)
        /\ Region[p + 1] \notin {0, 1}

KindAfter(cs) == Region[Len(BufferConcat(cs)) + 1]

LengthAfter(cs) == Region[Len(BufferConcat(cs)) + 2]

\* that option ends within the region
FitsAfter(cs) == Len(BufferConcat(cs)) + LengthAfter(cs) <= Len(Region)

\* only NoOp bytes follow that option
NoOpsAfter(cs) ==
    \A j \in Len(BufferConcat(cs)) + LengthAfter(cs) + 1 .. Len(Region) :
        Region[j] = 1

\* the decoded options hold that option after those of cs, with its kind,
\* its length and its length - 2 data bytes
AcceptedAfter(cs) ==
    LET p == Len(BufferConcat(cs))
        n == Len(cs) + 1
    IN  /\ Len(output.options) >= n
        /\ output.options[n].kind = KindAfter(cs)
        /\ output.options[n].length = LengthAfter(cs)
        /\ output.options[n].data = SubSeq(Region, p + 3, p + LengthAfter(cs))
        /\ Len(output.options[n].data) = LengthAfter(cs) - 2

\* C12: a kind-5 option whose length byte is 10, 18, 26 or 34 and which
\* fits in the options region is decoded with its kind, length and data;
\* with any other length byte, or when it does not fit, the option decode
\* returns its result for a malformed option, the empty list.
C12_SackLengthRule ==
    \A cs \in PrefixChunks :
        (Decoded /\ CarriesAfter(cs) /\ KindAfter(cs) = 5) =>
            IF LengthAfter(cs) \in {10, 18, 26, 34} /\ FitsAfter(cs)
            THEN NoOpsAfter(cs) => AcceptedAfter(cs)
            ELSE output.options = << >>

\* a SACK option of four blocks behind a NoOp
C12_Witness ==
    /\ Decoded
    /\ CarriesAfter(<<optNOP>>)
    /\ KindAfter(<<optNOP>>) = 5
    /\ LengthAfter(<<optNOP>>) = 34
    /\ AcceptedAfter(<<optNOP>>)

\* the header of the packet passes the checks of Decode: 20 bytes at least
\* after the skip, reserved bits zero, a data offset of 5 to 15 words within
\* the packet
HeaderAccepted ==
    /\ DecodeCalled
    /\ Len(packet) >= TcpStart + 20
    /\ (packet[TcpStart + 13] \div 2) % 8 = 0
    /\ packet[TcpStart + 13] \div 16 >= 5
    /\ (packet[TcpStart + 13] \div 16) * 4 <= Len(packet) - TcpStart

\* the region is the well-formed options cs and one more byte, a kind other
\* than 0 and 1: no length byte exists for it
TruncatedAfter(cs) ==
    /\ Len(Region) = Len(BufferConcat(cs)) + 1
    /\ IsPrefix(BufferConcat(cs), Region)
    /\ Region[Len(Region)] \notin {0, 1}

\* C13: when the last byte of the options region is a kind other than 0 and
\* 1, the option decode fails: Decode does not return a segment whose
\* options are those parsed before that byte.
C13_TruncatedOptionFails ==
    \A cs \in TruncatedPrefixChunks :
        (HeaderAccepted /\ TruncatedAfter(cs)) =>
            ~(output.kind = "Object" /\ output.options # << >>)

\* the lengths the claims allow for a kind: one width for MSS, Window Scale,
\* SACK-Permitted and Timestamp, 2 + 8n for SACK, 2 to 40 otherwise
AllowedWidths(kind) ==
    IF kind = 2 THEN {4}
    ELSE IF kind = 3 THEN {3}
    ELSE IF kind = 4 THEN {2}
    ELSE IF kind = 8 THEN {10}
    ELSE IF kind = 5 THEN {10, 18, 26, 34}
    ELSE 2 .. 40

\* the option after cs has an invalid length field
MalformedAfter(cs) ==
    \/ LengthAfter(cs) < 2
    \/ LengthAfter(cs) \notin AllowedWidths(KindAfter(cs))
    \/ ~FitsAfter(cs)

\* C14: when the option decode meets an option whose length field is below
\* 2, outside the widths of its kind, or past the end of the region, its
\* result holds none of the options parsed before that option: it is the
\* empty list.
C14_AbortOnMalformed ==
    \A cs \in PrefixChunks :
        (Decoded /\ CarriesAfter(cs) /\ MalformedAfter(cs)) =>
            output.options = << >>

\* a Timestamp option with a length byte of 9 behind an MSS option
C14_Witness ==
    /\ Decoded
    /\ CarriesAfter(<<optMSS(1460)>>)
    /\ KindAfter(<<optMSS(1460)>>) = 8
    /\ LengthAfter(<<optMSS(1460)>>) = 9
    /\ output.options = << >>

\* C15: when the options region of a packet holds a malformed option, Decode
\* fails: it returns no populated segment, in particular none whose options
\* are the empty list of a segment without options.
C15_MalformedOptionsFailDecode ==
    \A cs \in PrefixChunks :
        (HeaderAccepted /\ CarriesAfter(cs) /\ MalformedAfter(cs)) =>
            output.kind # "Object"

\* C16: an EndOfList option is the last element of the decoded options; when
\* the region holds an EndOfList byte behind the well-formed options cs, the
\* decoded options are those of cs and one EOL option, whatever bytes follow
\* that byte.
C16_EOLTerminates ==
    Decoded =>
        /\ \A n \in 1 .. Len(output.options) :
              output.options[n].kind = 0 => n = Len(output.options)
        /\ \A cs \in PrefixChunks :
              IsPrefix(BufferConcat(cs) \o optEOL, Region) =>
                  /\ Len(output.options) = Len(cs) + 1
                  /\ output.options[Len(cs) + 1] = [type |-> "EOL", kind |-> 0]
                  /\ \A n \in 1 .. Len(cs) : output.options[n].kind = cs[n][1]

\* an EndOfList byte behind an MSS option, an MSS option with a length byte
\* of 255 after it
C16_Witness ==
    /\ Decoded
    /\ Region = optMSS(1460) \o optEOL \o <<2, 255, 5, 180>> \o <<255, 255, 255>>
    /\ Len(output.options) = 2
    /\ output.options[2].kind = 0

\* the one width of MSS, Window Scale, SACK-Permitted and Timestamp
FixedWidth == (2 :> 4) @@ (3 :> 3) @@ (4 :> 2) @@ (8 :> 10)

\* C17: an option of kind 2, 3, 4 or 8 whose length byte is 4, 3, 2 or 10
\* respectively and which fits in the region is decoded with exactly
\* length - 2 data bytes; with any other length byte the option decode
\* returns its result for a malformed option, the empty list.
C17_FixedWidthKinds ==
    \A cs \in PrefixChunks :
        (Decoded /\ CarriesAfter(cs) /\ KindAfter(cs) \in DOMAIN FixedWidth) =>
            IF LengthAfter(cs) = FixedWidth[KindAfter(cs)] /\ FitsAfter(cs)
            THEN NoOpsAfter(cs) => AcceptedAfter(cs)
            ELSE output.options = << >>

\* a Timestamp option behind a SACK-Permitted option and a NoOp
C17_Witness ==
    /\ op = "DecodePacket"
    /\ Decoded
    /\ CarriesAfter(<<optSACK, optNOP>>)
    /\ KindAfter(<<optSACK, optNOP>>) = 8
    /\ LengthAfter(<<optSACK, optNOP>>) = 10
    /\ AcceptedAfter(<<optSACK, optNOP>>)
    /\ Len(output.options[3].data) = 8

\* the statement of C18 for the kinds outside the set known
UnknownKindsRule(known) ==
    \A cs \in PrefixChunks :
        (Decoded /\ CarriesAfter(cs) /\ KindAfter(cs) \notin known) =>
            /\ (LengthAfter(cs) \in 2 .. 40 /\ FitsAfter(cs) /\ NoOpsAfter(cs))
                  => AcceptedAfter(cs)
            /\ (LengthAfter(cs) < 2 \/ LengthAfter(cs) > 40)
                  => output.options = << >>

\* C18 as stated: for every kind other than 0, 1, 2, 3, 4, 5 and 8, an
\* option with a length byte in 2..40 that fits in the region is decoded
\* with that kind and its length - 2 data bytes, and one with a length byte
\* below 2 or above 40 is rejected.
C18_UnknownKindsAsStated == UnknownKindsRule({0, 1, 2, 3, 4, 5, 8})

\* C18 amended: the same for every kind other than 0, 1, 2, 3, 4, 5, 8 and
\* 14; kind 14 is a fixed-width kind of the decoder.
C18_UnknownKinds == UnknownKindsRule({0, 1, 2, 3, 4, 5, 8, 14})

\* an option of kind 253 filling a region of 40 bytes
C18_Witness ==
    /\ Decoded
    /\ CarriesAfter(<< >>)
    /\ KindAfter(<< >>) = 253
    /\ LengthAfter(<< >>) = 40
    /\ AcceptedAfter(<< >>)
    /\ output.options[1].type = "Unknown-253"

\* a part of an address is a decimal octet: one to three digits, at most 255
DecimalOctet(part) ==
    /\ Len(part) \in 1 .. 3
    /\ \A i \in 1 .. Len(part) : IsDigit(part[i])
    /\ DigitPrefix(part, 0) <= 255

\* four dot-separated decimal octets
DottedQuad(ip) ==
    /\ Len(Split(ip, ".")) = 4
    /\ \A i \in 1 .. 4 : DecimalOctet(Split(ip, ".")[i])

\* C19: when the source or the destination address is not four
\* dot-separated decimal octets each in 0..255, Encode returns no segment.
C19_InvalidAddressRejected ==
    (/\ op = "Encode"
     /\ ~DottedQuad(args.srcIp) \/ ~DottedQuad(args.destIp)) =>
        segment = Returned(<< >>)

\* C20: for a packet of at least 20 bytes, Decode with skipIPHeader returns
\* what Decode without it returns for the packet minus its first 20 bytes:
\* both reject the packet, or both return the same fields, options and
\* payload.
C20_SkipIsDecodeOfTail ==
    (DecodeCalled /\ skipIPHeader /\ Len(packet) >= 20) =>
        output = Decode(SubSeq(packet, 21, Len(packet)), FALSE)

\* a packet behind an IP header, with options and a payload, decoded with
\* skipIPHeader
C20_Witness ==
    /\ op = "DecodePacket"
    /\ skipIPHeader
    /\ Len(packet) >= 40
    /\ SubSeq(packet, 1, 20) = IPHeaderBytes
    /\ output.kind = "Object"
    /\ output.dataOffset = 8
    /\ Len(output.options) = 3
    /\ output.dataPayload = <<72, 105>>

\* the bytes of the last checksum call, concatenated
SummedBytes == sums.parts[1] \o sums.parts[2] \o sums.parts[3]

\* values a byte is changed to
ProbeBytes == {0, 1, 128, 255}

\* the byte sequences that differ from b in exactly one byte
OneByteChanges(b) ==
    {[b EXCEPT ![i] = v] : i \in 1 .. Len(b), v \in ProbeBytes} \ {b}

\* the checksum field of a segment
ChecksumField(b) == b[17] * 256 + b[18]

\* C21: the checksum primitive returns different values for two byte
\* sequences of equal length that differ in exactly one byte, and two
\* segments built by Encode from inputs that differ in one byte of the
\* payload carry different checksums.
C21_SingleByteSensitivity ==
    /\ op = "checksums" =>
          \A c \in OneByteChanges(SummedBytes) : onesComplementSum(c) # sums.tcp
    /\ (op = "Encode" /\ SegmentReturned) =>
          \A d \in OneByteChanges(args.data) :
              LET other == Encode([args EXCEPT !.data = d])
              IN  /\ ~other.threw
                  /\ ChecksumField(other.buf) # ChecksumField(segment.buf)

\* an odd number of bytes summed, the last of them 255
C21_Witness ==
    /\ op = "checksums"
    /\ Len(SummedBytes) = 5
    /\ SummedBytes[5] = 255
    /\ SummedBytes[1] = 255
    /\ sums.tcp # onesComplementSum([SummedBytes EXCEPT ![5] = 0])

\* C22 as stated: the checksum field of every segment Encode returns is
\* non-zero.
C22_ChecksumNonZero ==
    SegmentReturned => ChecksumField(segment.buf) # 0

\* C22 amended: the checksum field of a segment Encode returns is zero
\* exactly when the folded sum of the words of the pseudo-header and of the
\* segment with a zero checksum field is 0xFFFF.
C22_ChecksumZeroOnlyForAllOnes ==
    (/\ SegmentReturned
     /\ args.srcIp \in ValidAddresses
     /\ args.destIp \in ValidAddresses) =>
        (ChecksumField(segment.buf) = 0 <=> RefFold(ZeroedWordSum) = 65535)

\* the segment with a window of 25939, whose words sum to 0xFFFF
C22_Witness ==
    /\ op = "Encode"
    /\ SegmentReturned
    /\ args.windowSize = 25939
    /\ ChecksumField(segment.buf) = 0


\* the arguments a with a payload of n zero bytes
WithPayloadOf(a, n) == [a EXCEPT !.data = BufferAlloc(n)]

\* the call passes options of NoOp bytes and no payload
OnlyNoOpOptions ==
    /\ args.data = << >>
    /\ args.options = BufferAllocFill(Len(args.options), 1)

\* C23: Encode returns a segment only when header plus payload fit in 65535
\* bytes: with valid arguments a segment is returned exactly when 20 + the
\* padded options + the payload is at most 65535, no returned segment is
\* longer, a longer one makes Encode fail without a segment, and for
\* options of every length the largest payload that fits passes the writes
\* of Encode while one more byte does not.
C23_SegmentSizeLimit ==
    /\ (op = "Encode" /\ WellFormedArgs(args)) =>
          /\ SegmentReturned <=>
                20 + PaddedLength(args) + Len(args.data) <= MaxSegmentLength
          /\ OnlyNoOpOptions =>
                LET paddedOptions == optPadding(args.options)
                    room == MaxSegmentLength - 20 - Len(paddedOptions)
                IN  /\ ~encodeThrows(WithPayloadOf(args, room), paddedOptions)
                    /\ encodeThrows(WithPayloadOf(args, room + 1), paddedOptions)
    /\ (op = "Encode" /\ 20 + PaddedLength(args) + Len(args.data) > MaxSegmentLength) =>
          (~SegmentReturned /\ segment.buf = << >>)
    /\ SegmentReturned => Len(segment.buf) <= MaxSegmentLength

C23_Witness ==
    /\ op = "Encode"
    /\ WellFormedArgs(args)
    /\ args.options = << >>
    /\ Len(args.data) = MaxSegmentLength - 20 + 1
    /\ segment.threw
    /\ ~encodeThrows(WithPayloadOf(args, 65495), << >>)


\* a write accessor was called on a Buffer
WriteAccess ==
    /\ op = "access"
    /\ access.fn \in {"checkAndWrite16", "checkAndWrite8"}
    /\ access.buffer.isBuffer

\* the width in bytes of the field of the last accessor call
AccessWidth == IF access.fn \in {"checkAndWrite16", "checkAndRead16"} THEN 2 ELSE 1

\* the value of the last write is an integer of the unsigned range of the field
AccessValueFits ==
    /\ ~access.value.half
    /\ access.value.int >= 0
    /\ access.value.int <= (IF AccessWidth = 2 THEN 65535 ELSE 255)

\* the field of the last accessor call lies outside the buffer
AccessOutOfBounds == access.from + AccessWidth > Len(access.buffer.bytes)

\* C24: checkAndWrite16 and checkAndWrite8 are all-or-nothing: with
\* offset + width beyond the buffer, or a value that is negative, above
\* 0xFFFF / 0xFF or not an integer, they return 0 and the buffer is
\* unchanged; otherwise the value is stored big-endian at the offset, every
\* other byte keeps its value, and the width is returned.
C24_WritesAllOrNothing ==
    WriteAccess =>
        IF AccessOutOfBounds \/ ~AccessValueFits
        THEN /\ access.returned = 0
             /\ access.bytes = access.buffer.bytes
        ELSE /\ access.returned = AccessWidth
             /\ Len(access.bytes) = Len(access.buffer.bytes)
             /\ \A i \in 1 .. Len(access.bytes) :
                    (i <= access.from \/ i > access.from + AccessWidth) =>
                        access.bytes[i] = access.buffer.bytes[i]
             /\ IF AccessWidth = 2
                THEN access.bytes[access.from + 1] * 256 + access.bytes[access.from + 2] = access.value.int
                ELSE access.bytes[access.from + 1] = access.value.int

C24_Witness ==
    /\ WriteAccess
    /\ access.fn = "checkAndWrite16"
    /\ access.buffer.bytes = <<255, 255, 255>>
    /\ access.value = Whole(258)
    /\ access.from = 1
    /\ access.returned = 2
    /\ access.bytes = <<255, 1, 2>>


\* a read accessor was called on a Buffer
ReadAccess ==
    /\ op = "access"
    /\ access.fn \in {"checkAndRead16", "checkAndRead8"}
    /\ access.buffer.isBuffer

\* what the read accessor fn returns for the field at from of b
ReadBy(fn, b, from) ==
    IF fn = "checkAndRead16" THEN checkAndRead16(b, from).returned
    ELSE checkAndRead8(b, from).returned

\* C25: a read by checkAndRead16 / checkAndRead8 at an offset with
\* offset + width beyond the buffer reports a failure that differs from
\* what every read inside a buffer returns, a stored zero included.
C25_ReadFailureDistinct ==
    (ReadAccess /\ AccessOutOfBounds) =>
        \A b \in AccessBuffers, from \in AccessOffsets :
            (b.isBuffer /\ from + AccessWidth <= Len(b.bytes)) =>
                ReadBy(access.fn, b, from) # access.returned


\* the three checksum routines were called on the same bytes
ChecksumsCalled == op = "checksums"

\* C26: for every byte sequence b the complement, masked to 16 bits, of
\* onesComplementSum(b) of the TCP codec equals onesComplementSum(b) of the
\* IPv4 codec, and calculateChecksum(p, h, d) of the UDP codec equals that
\* value for b = p ++ h ++ d.
C26_ChecksumRoutinesAgree ==
    ChecksumsCalled =>
        /\ BitAnd(65535 - sums.tcp, 65535) = sums.ipv4
        /\ sums.udp = sums.ipv4

\* an odd number of bytes whose running sum exceeds 0xFFFF after the second
\* word and again after the third
C26_Witness ==
    /\ ChecksumsCalled
    /\ sums.parts = <<<<255, 255>>, <<255, 255>>, <<255>>>>
    /\ sums.tcp = 65280
    /\ sums.ipv4 = 255
    /\ sums.udp = 255


\* the folded sum a receiver computes over the pseudo-header and the
\* returned segment, its checksum field as stored
ReceiverSum ==
    onesComplementSum(pseudoHeaderOf(args.srcIp, args.destIp, segment.buf) \o segment.buf)

\* C27: for every segment Encode(src, dst, ...) returns, the folded
\* one's-complement sum of the words of the pseudo-header (src, dst,
\* protocol 6, segment length) followed by the segment with its stored
\* checksum is 0xFFFF, and tcpCheckSum(src, dst, segment) returns 0.
C27_ReceiverVerification ==
    SegmentReturned =>
        /\ ReceiverSum = 65535
        /\ tcpCheckSum(args.srcIp, args.destIp, segment.buf) = 0
        /\ (args.srcIp \in ValidAddresses /\ args.destIp \in ValidAddresses) =>
              RefFold(RefWordSum(RefPseudoHeader(args, Len(segment.buf)) \o segment.buf)) = 65535

\* a segment with options and a payload of 3 bytes, verified by its receiver
C27_Witness ==
    /\ op = "Encode"
    /\ SegmentReturned
    /\ args.options # << >>
    /\ Len(args.data) = 3
    /\ Len(segment.buf) % 2 = 1
    /\ ChecksumField(segment.buf) \notin {0, 65535}
    /\ ReceiverSum = 65535
    /\ tcpCheckSum(args.srcIp, args.destIp, segment.buf) = 0


\* the cursor values of the iterations parseOptions made over the region
Cursors == parseOptionsCursors(Region, 0, << >>)

\* C28: over the options region of every packet whose header Decode accepts
\* (at most 40 bytes), the cursor of parseOptions is larger at every
\* iteration than at the one before, by 1 after a NoOp and otherwise by the
\* length byte, which is at least 2, and the loop makes at most as many
\* iterations as the region has bytes.
C28_ParseOptionsTerminates ==
    HeaderAccepted =>
        LET region == Region
            cursors == Cursors
        IN  /\ Len(region) <= 40
            /\ Len(cursors) <= Len(region)
            /\ \A k \in 1 .. Len(cursors) :
                  /\ cursors[k] >= 0 /\ cursors[k] < Len(region)
                  /\ k > 1 =>
                        /\ cursors[k] > cursors[k - 1]
                        /\ IF region[cursors[k - 1] + 1] = 1
                           THEN cursors[k] = cursors[k - 1] + 1
                           ELSE /\ region[cursors[k - 1] + 2] >= 2
                                /\ cursors[k] = cursors[k - 1] + region[cursors[k - 1] + 2]

\* a region of 40 bytes walked over a NoOp, a 4-byte option and further
\* bytes, in more than three iterations
C28_Witness ==
    /\ HeaderAccepted
    /\ Len(Region) = 40
    /\ Len(Cursors) > 3
    /\ \E k \in 2 .. Len(Cursors) : Cursors[k] = Cursors[k - 1] + 4
    /\ \E k \in 2 .. Len(Cursors) : Cursors[k] = Cursors[k - 1] + 1


\* the offsets of the options region the parser read
RegionReads == parseOptionsReads(Region, 0, {})

\* C29: Decode reads no byte outside its packet, whatever the length of the
\* packet and the value of skipIPHeader: no read of the fixed header is past
\* the end, every offset the option parser reads is inside the options
\* region and that region inside the packet, the data of every option
\* Decode emits is the length - 2 bytes of the region behind its length
\* byte, and in a decoded packet the header of dataOffset * 4 bytes and the
\* payload are exactly the bytes after the skipped ones.
C29_DecodeStaysInBounds ==
    /\ DecodeCalled => output # DecodeThrown
    /\ (DecodeCalled /\ output # DecodeRejected) => Decoded
    /\ HeaderAccepted =>
          /\ TcpStart + 20 + Len(Region) <= Len(packet)
          /\ \A r \in RegionReads :
                r >= 0 /\ r < Len(Region) /\ TcpStart + 20 + r < Len(packet)
    /\ Decoded =>
          /\ LET region == Region
                 cursors == Cursors
             IN  /\ Len(output.options) <= Len(cursors)
                 /\ \A k \in 1 .. Len(output.options) :
                       LET o == output.options[k]
                           c == cursors[k]
                       IN  o.kind \notin {0, 1} =>
                               /\ c + o.length <= Len(region)
                               /\ Len(o.data) = o.length - 2
                               /\ o.data = SubSeq(region, c + 3, c + o.length)
          /\ output.dataOffset * 4 + Len(output.dataPayload) = Len(packet) - TcpStart
          /\ output.dataPayload
                = SubSeq(packet, TcpStart + output.dataOffset * 4 + 1, Len(packet))
          /\ Len(Region) = output.dataOffset * 4 - 20

\* a packet behind an IP header decoded into options with data and a payload
C29_Witness ==
    /\ Decoded
    /\ skipIPHeader
    /\ Len(Region) = 40
    /\ Len(output.dataPayload) = 2
    /\ \E k \in 1 .. Len(output.options) :
          /\ output.options[k].kind \notin {0, 1}
          /\ Len(output.options[k].data) >= 2
          /\ Cursors[k] > 0
    /\ RegionReads # {}


=============================================================================
